---- MODULE Spec2Model ----
(***************************************************************************)
(* serve-static (src/index.js): the request dispatcher, the shared path    *)
(* cache, the precompression negotiation and the directory listeners.      *)
(*                                                                         *)
(* Text values (URLs, paths, header values, bodies) are sequences of        *)
(* one-character strings, so that concatenation, suffix tests, searching    *)
(* and escaping are computed character by character as the code does.       *)
(***************************************************************************)
EXTENDS Integers, Sequences, FiniteSets, TLC

VARIABLES
    pathCache,  \* the module-level Map, in insertion order: Seq of [key, value]
    cfg,        \* the options each constructed middleware closed over
    req,        \* per request slot: the request, its closure variables, its response
    built       \* the last call of serveStatic(root, options) and how it ended

vars == <<pathCache, cfg, req, built>>

----------------------------------------------------------------------------
(* Bounds of the model *)

\* the Map's capacity. The source sets 1000; the model scales it down so that
\* a full cache and evictions are reached.
MAX_CACHE_SIZE == 2

\* the longest run of leading slashes of a request URL
MaxSlashes == 3

\* the most middlewares constructed
MaxInstances == 2

\* the most requests in flight at once
MaxInFlight == 2

----------------------------------------------------------------------------
(* Text helpers: what the JavaScript string primitives compute *)

\* str.substr(i) for 0 <= i (0-based): the characters from index i on
Substr(str, i) == SubSeq(str, i + 1, Len(str))

\* haystack.indexOf(needle) !== -1
Contains(haystack, needle) ==
    \E i \in 0..(Len(haystack) - Len(needle)) :
        SubSeq(haystack, i + 1, i + Len(needle)) = needle

\* str.substr(-1) === '/'
EndsWithSlash(str) == Len(str) > 0 /\ str[Len(str)] = "/"

EndsWith(str, suffix) ==
    /\ Len(str) >= Len(suffix)
    /\ SubSeq(str, Len(str) - Len(suffix) + 1, Len(str)) = suffix

----------------------------------------------------------------------------
(* The path cache *)

Sep == <<":", ":">>

CacheKey(pathname, root) == root \o Sep \o pathname

MapHas(m, k) == \E i \in 1..Len(m) : m[i].key = k

MapGet(m, k) == m[CHOOSE i \in 1..Len(m) : m[i].key = k].value

MapDelete(m, k) == SelectSeq(m, LAMBDA e : e.key # k)

\* Map.prototype.set: an existing key keeps its place, a new key goes last
MapSet(m, k, v) ==
    IF MapHas(m, k)
    THEN [i \in 1..Len(m) |-> IF m[i].key = k THEN [key |-> k, value |-> v] ELSE m[i]]
    ELSE Append(m, [key |-> k, value |-> v])

\* pathCache.keys().next().value
MapFirstKey(m) == m[1].key

EvictIfFull_offByOne(m) ==
    IF Len(m) > MAX_CACHE_SIZE THEN MapDelete(m, MapFirstKey(m)) ELSE m

\* the Map after the eviction step of getCachedPath
EvictIfFull(m) ==
    IF Len(m) >= MAX_CACHE_SIZE THEN MapDelete(m, MapFirstKey(m)) ELSE m

\* getCachedPath(pathname, root): the value returned
getCachedPath(m, pathname, root) ==
    IF MapHas(m, CacheKey(pathname, root))
    THEN MapGet(m, CacheKey(pathname, root))
    ELSE pathname

getCachedPathCache_noTouch(m, pathname, root) ==
    LET cacheKey == CacheKey(pathname, root) IN
    IF MapHas(m, cacheKey)
    THEN m
    ELSE MapSet(EvictIfFull(m), cacheKey, pathname)

\* getCachedPath(pathname, root): the Map it leaves behind
getCachedPathCache(m, pathname, root) ==
    LET cacheKey == CacheKey(pathname, root) IN
    IF MapHas(m, cacheKey)
    THEN MapSet(MapDelete(m, cacheKey), cacheKey, MapGet(m, cacheKey))
    ELSE MapSet(EvictIfFull(m), cacheKey, pathname)

----------------------------------------------------------------------------
(* URLs *)

\* a fixed header value or token, kept as one piece
Lit(s) == <<s>>

\* index (1-based) of the first "?" of str, or Len(str) + 1 when there is none
QueryStart(str) ==
    IF \E i \in 1..Len(str) : str[i] = "?"
    THEN CHOOSE i \in 1..Len(str) : str[i] = "?" /\ \A j \in 1..(i - 1) : str[j] # "?"
    ELSE Len(str) + 1

\* parseUrl(...).pathname of a request URL that starts with "/"
Pathname(str) == SubSeq(str, 1, QueryStart(str) - 1)

\* parseUrl(...).search: from the "?" on; <<>> stands for null
Search(str) == SubSeq(str, QueryStart(str), Len(str))

\* the loop of collapseLeadingSlashes: the number of leading "/"
RECURSIVE LeadingSlashes(_)
LeadingSlashes(str) ==
    IF str # <<>> /\ Head(str) = "/" THEN 1 + LeadingSlashes(Tail(str)) ELSE 0

collapseLeadingSlashes_keepAll(str) == str

collapseLeadingSlashes(str) ==
    IF LeadingSlashes(str) > 1
    THEN <<"/">> \o Substr(str, LeadingSlashes(str))
    ELSE str

\* url.format of the parsed original URL (no protocol, host or hash): the
\* pathname with "?" and "#" escaped, then the search with "#" escaped
FormatPathChar(c) ==
    CASE c = "?" -> <<"%", "3", "F">>
      [] c = "#" -> <<"%", "2", "3">>
      [] OTHER -> <<c>>

FormatSearchChar(c) == IF c = "#" THEN <<"%", "2", "3">> ELSE <<c>>

RECURSIVE FormatPath(_)
FormatPath(str) ==
    IF str = <<>> THEN <<>> ELSE FormatPathChar(Head(str)) \o FormatPath(Tail(str))

RECURSIVE FormatSearch(_)
FormatSearch(str) ==
    IF str = <<>> THEN <<>> ELSE FormatSearchChar(Head(str)) \o FormatSearch(Tail(str))

UrlFormat(pathname, search) == FormatPath(pathname) \o FormatSearch(search)

\* encodeUrl, on the characters the model uses: the characters outside its
\* allowed set are percent-encoded, the others are kept
EncodeUrlChar(c) ==
    CASE c = "<" -> <<"%", "3", "C">>
      [] c = ">" -> <<"%", "3", "E">>
      [] c = "\"" -> <<"%", "2", "2">>
      [] c = " " -> <<"%", "2", "0">>
      [] OTHER -> <<c>>

RECURSIVE encodeUrl(_)
encodeUrl(str) ==
    IF str = <<>> THEN <<>> ELSE EncodeUrlChar(Head(str)) \o encodeUrl(Tail(str))

EscapeHtmlChar(c) ==
    CASE c = "\"" -> <<"&", "q", "u", "o", "t", ";">>
      [] c = "&" -> <<"&", "a", "m", "p", ";">>
      [] c = "'" -> <<"&", "#", "3", "9", ";">>
      [] c = "<" -> <<"&", "l", "t", ";">>
      [] c = ">" -> <<"&", "g", "t", ";">>
      [] OTHER -> <<c>>

RECURSIVE escapeHtml(_)
escapeHtml(str) ==
    IF str = <<>> THEN <<>> ELSE EscapeHtmlChar(Head(str)) \o escapeHtml(Tail(str))

DocHead ==
    <<"<", "!", "D", "O", "C", "T", "Y", "P", "E", " ", "h", "t", "m", "l",
      ">", "\n", "<", "h", "t", "m", "l", " ", "l", "a", "n", "g", "=", "\"",
      "e", "n", "\"", ">", "\n", "<", "h", "e", "a", "d", ">", "\n", "<",
      "m", "e", "t", "a", " ", "c", "h", "a", "r", "s", "e", "t", "=", "\"",
      "u", "t", "f", "-", "8", "\"", ">", "\n", "<", "t", "i", "t", "l", "e",
      ">">>

DocMid ==
    <<"<", "/", "t", "i", "t", "l", "e", ">", "\n", "<", "/", "h", "e", "a",
      "d", ">", "\n", "<", "b", "o", "d", "y", ">", "\n", "<", "p", "r", "e",
      ">">>

DocTail ==
    <<"<", "/", "p", "r", "e", ">", "\n", "<", "/", "b", "o", "d", "y", ">",
      "\n", "<", "/", "h", "t", "m", "l", ">", "\n">>

TxtRedirecting ==
    <<"R", "e", "d", "i", "r", "e", "c", "t", "i", "n", "g">>

TxtRedirectingTo ==
    <<"R", "e", "d", "i", "r", "e", "c", "t", "i", "n", "g", " ", "t", "o",
      " ">>

createHtmlDocument(title, body) == DocHead \o title \o DocMid \o body \o DocTail

\* Buffer.byteLength of a text of one-byte characters (encodeUrl leaves no other)
ByteLength(str) == Len(str)

\* the Location of the redirect listener, from the original request URL
RedirectLocation(originalUrl) ==
    encodeUrl(UrlFormat(collapseLeadingSlashes(Pathname(originalUrl) \o <<"/">>),
                        Search(originalUrl)))

RedirectDoc(loc) ==
    createHtmlDocument(TxtRedirecting, TxtRedirectingTo \o escapeHtml(loc))

----------------------------------------------------------------------------
(* The middleware: path derivation and negotiation *)

IndexHtml == <<"/", "i", "n", "d", "e", "x", ".", "h", "t", "m", "l">>
DotBr == <<".", "b", "r">>
DotGz == <<".", "g", "z">>
TokBr == <<"b", "r">>
TokGzip == <<"g", "z", "i", "p">>

\* null, for precompressed and encoding
Null == <<>>

\* var path: the pathname of req.url, emptied at the mount root when the
\* original URL has no trailing slash
DerivePath(originalUrl, url) ==
    IF Pathname(url) = <<"/">> /\ ~EndsWithSlash(Pathname(originalUrl))
    THEN <<>>
    ELSE Pathname(url)

\* var candidate
Candidate(cachedPath) ==
    IF cachedPath = <<>> \/ cachedPath = <<"/">> THEN IndexHtml ELSE cachedPath

acceptBr(ae) == Contains(ae, TokBr)
acceptGzip(ae) == Contains(ae, TokGzip)

\* the if / else-if that tries brotli first; brExists and gzExists are what
\* fs.existsSync answers for abs + '.br' and abs + '.gz'
Negotiate(candidate, ae, brExists, gzExists) ==
    IF acceptBr(ae) /\ brExists
    THEN [precompressed |-> candidate \o DotBr, encoding |-> Lit("br")]
    ELSE IF acceptGzip(ae) /\ gzExists
    THEN [precompressed |-> candidate \o DotGz, encoding |-> Lit("gzip")]
    ELSE [precompressed |-> Null, encoding |-> Null]

\* precompressed || cachedPath
Or(a, b) == IF a # Null THEN a ELSE b

\* precompressed.replace(/\.(br|gz)$/, '')
StripVariantSuffix(str) ==
    IF EndsWith(str, DotBr) \/ EndsWith(str, DotGz)
    THEN SubSeq(str, 1, Len(str) - 3)
    ELSE str

\* the extension send.mime.lookup looks up: what follows the last ".", "/"
\* or "\\" of the path
RECURSIVE MimeExt(_)
MimeExt(str) ==
    IF str = <<>> \/ str[Len(str)] \in {".", "/", "\\"}
    THEN <<>>
    ELSE MimeExt(SubSeq(str, 1, Len(str) - 1)) \o <<str[Len(str)]>>

MimeLookup(str) ==
    LET ext == MimeExt(str) IN
    CASE ext = <<"h", "t", "m", "l">> -> Lit("text/html")
      [] ext = <<"j", "s">> -> Lit("application/javascript")
      [] ext = <<"g", "z">> -> Lit("application/gzip")
      [] OTHER -> Lit("application/octet-stream")

----------------------------------------------------------------------------
(* The streaming engine, as far as the listeners see it *)

\* SendStream.hasTrailingSlash(): of the path the stream was created with
hasTrailingSlash(enginePath) == EndsWithSlash(enginePath)

\* the file the engine opens for the path it was handed
EngineFilePath(root, enginePath) ==
    IF hasTrailingSlash(enginePath)
    THEN root \o enginePath \o Tail(IndexHtml)
    ELSE root \o enginePath

\* stat.size of a file: different for a file and for its siblings
StatSize(filePath) ==
    CASE EndsWith(filePath, DotBr) -> 10 + Len(filePath)
      [] EndsWith(filePath, DotGz) -> 20 + Len(filePath)
      [] OTHER -> 40 + Len(filePath)

\* a precompressed sibling is a regular file: the engine never reports the
\* path of one as a directory
IsVariantPath(r) == r.precompressed # Null

----------------------------------------------------------------------------
(* State of one request *)

NoRequest ==
    [phase |-> "idle",          \* idle, piped, file, headers, done
     inst |-> 0,                \* the middleware instance that handles it
     method |-> "",
     originalUrl |-> <<>>,      \* req.originalUrl
     url |-> <<>>,              \* req.url
     ae |-> <<>>,               \* var ae of the negotiation
     brExists |-> FALSE,        \* fs.existsSync was asked for the .br sibling: yes
     gzExists |-> FALSE,        \* fs.existsSync was asked for the .gz sibling: yes
     path |-> <<>>,
     cachedPath |-> <<>>,
     hit |-> FALSE,             \* getCachedPath found the key in the Map
     evicted |-> Null,          \* the key getCachedPath deleted as the oldest
                                \* (both locals of the call, kept until the
                                \* engine's first notification)
     precompressed |-> Null,
     encoding |-> Null,
     forwardError |-> FALSE,
     enginePath |-> <<>>,       \* the path send() was called with
     events |-> <<>>,           \* the notifications the engine has emitted
     errStatus |-> 0,           \* err.statusCode of the 'error' emitted, 0: none
     statusCode |-> 0,          \* res.statusCode as set by the dispatcher, 0: not set
     writes |-> <<>>,           \* res.setHeader calls of dispatcher and callback
     body |-> <<>>,
     ended |-> <<>>,            \* who ended the response, in order
     setHeadersCalls |-> <<>>,  \* calls of the user's setHeaders
     nextCalls |-> <<>>]        \* calls of next: err 0 is no argument

Write(by, name, value) == [by |-> by, name |-> name, value |-> value]

SetHeader(r, name, value) ==
    [r EXCEPT !.writes = Append(@, Write("dispatcher", name, value))]

\* the header names written so far
Written(r) == {r.writes[k].name : k \in 1..Len(r.writes)}

\* the value a header holds: that of its last write
Header(r, name) ==
    r.writes[CHOOSE k \in 1..Len(r.writes) :
                /\ r.writes[k].name = name
                /\ \A j \in (k + 1)..Len(r.writes) : r.writes[j].name # name].value

\* the engine emits an event for the request
Emitted(r, event) ==
    [r EXCEPT !.events = Append(@, event), !.hit = FALSE, !.evicted = Null]

CallNext(r, err) == [r EXCEPT !.nextCalls = Append(@, [err |-> err])]

----------------------------------------------------------------------------
(* The listeners *)

error_ignoresForwardError(r, status) ==
    IF ~(status < 500) THEN CallNext(r, status) ELSE CallNext(r, 0)

error_writesStatus(r, status) ==
    IF r.forwardError \/ ~(status < 500)
    THEN CallNext(r, status)
    ELSE CallNext([r EXCEPT !.statusCode = status], 0)

error_missingReturn(r, status) ==
    IF r.forwardError \/ ~(status < 500)
    THEN CallNext(CallNext(r, status), 0)
    ELSE CallNext(r, 0)

\* stream.on('error', function error (err) {...})
error(r, status) ==
    IF r.forwardError \/ ~(status < 500)
    THEN CallNext(r, status)
    ELSE CallNext(r, 0)

\* this.error(status) of the engine: it emits 'error' to the listener
EngineError(r, status) ==
    error([Emitted(r, "error") EXCEPT !.errStatus = status], status)

onFile_forgets(r) == r

\* stream.on('file', function onFile () {...}), registered under fallthrough
onFile(r) == [r EXCEPT !.forwardError = TRUE]

CbValue == <<"c", "b">>

\* the user's setHeaders, when there is one: a callback that overrides
\* headers the dispatcher wrote
CallSetHeaders(r, filePath, stat) ==
    [r EXCEPT
        !.setHeadersCalls = Append(@, [path |-> filePath, stat |-> stat,
                                        after |-> Len(r.writes)]),
        !.writes = @ \o <<Write("callback", "Vary", CbValue),
                          Write("callback", "Content-Encoding", CbValue)>>]

onHeaders_callbackFirst(r, c, filePath, stat) ==
    LET r0 == IF c.setHeaders THEN CallSetHeaders(r, filePath, stat) ELSE r
        r1 == SetHeader(r0, "Vary", Lit("Accept-Encoding"))
    IN  IF r.precompressed # Null /\ r.encoding # Null
        THEN SetHeader(SetHeader(SetHeader(r1,
                 "Content-Type", MimeLookup(StripVariantSuffix(r.precompressed))),
                 "Content-Encoding", r.encoding),
                 "Content-Length", stat.size)
        ELSE r1

onHeaders_typeOfVariant(r, c, filePath, stat) ==
    LET r1 == SetHeader(r, "Vary", Lit("Accept-Encoding"))
        r2 == IF r.precompressed # Null /\ r.encoding # Null
              THEN SetHeader(SetHeader(SetHeader(r1,
                       "Content-Type", MimeLookup(r.precompressed)),
                       "Content-Encoding", r.encoding),
                       "Content-Length", stat.size)
              ELSE r1
    IN  IF c.setHeaders THEN CallSetHeaders(r2, filePath, stat) ELSE r2

\* stream.on('headers', function onHeaders (res, filePath, stat) {...})
onHeaders(r, c, filePath, stat) ==
    LET r1 == SetHeader(r, "Vary", Lit("Accept-Encoding"))
        r2 == IF r.precompressed # Null /\ r.encoding # Null
              THEN SetHeader(SetHeader(SetHeader(r1,
                       "Content-Type", MimeLookup(StripVariantSuffix(r.precompressed))),
                       "Content-Encoding", r.encoding),
                       "Content-Length", stat.size)
              ELSE r1
    IN  IF c.setHeaders THEN CallSetHeaders(r2, filePath, stat) ELSE r2

\* createNotFoundDirectoryListener: this.error(404)
notFound(r) == EngineError(r, 404)

SendRedirect(r) ==
    LET loc == RedirectLocation(r.originalUrl)
        doc == RedirectDoc(loc)
        r1 == [r EXCEPT !.statusCode = 301]
        r2 == SetHeader(r1, "Content-Type", Lit("text/html; charset=UTF-8"))
        r3 == SetHeader(r2, "Content-Length", ByteLength(doc))
        r4 == SetHeader(r3, "Content-Security-Policy", Lit("default-src 'none'"))
        r5 == SetHeader(r4, "X-Content-Type-Options", Lit("nosniff"))
        r6 == SetHeader(r5, "Location", loc)
    IN  [r6 EXCEPT !.body = doc, !.ended = Append(@, "dispatcher")]

redirect_noSlashCheck(r) == SendRedirect(r)

\* createRedirectDirectoryListener
redirect(r) ==
    IF hasTrailingSlash(r.enginePath)
    THEN EngineError(r, 404)
    ELSE SendRedirect(r)

onDirectory_alwaysRedirect(r, c) == redirect(r)

\* var onDirectory = redirect ? createRedirectDirectoryListener()
\*                            : createNotFoundDirectoryListener()
onDirectory(r, c) == IF c.redirect THEN redirect(r) ELSE notFound(r)

----------------------------------------------------------------------------
(* The middleware *)

MethodGate_always405(r, c) ==
    LET r1 == [r EXCEPT !.statusCode = 405]
        r2 == SetHeader(r1, "Allow", Lit("GET, HEAD"))
        r3 == SetHeader(r2, "Content-Length", 0)
    IN  [r3 EXCEPT !.ended = Append(@, "dispatcher"), !.phase = "done"]

\* the branch for a method that is neither GET nor HEAD
MethodGate(r, c) ==
    IF c.fallthrough
    THEN [CallNext(r, 0) EXCEPT !.phase = "done"]
    ELSE LET r1 == [r EXCEPT !.statusCode = 405]
             r2 == SetHeader(r1, "Allow", Lit("GET, HEAD"))
             r3 == SetHeader(r2, "Content-Length", 0)
         IN  [r3 EXCEPT !.ended = Append(@, "dispatcher"), !.phase = "done"]

\* the rest of the middleware, up to stream.pipe(res). ae is the header as
\* the negotiation reads it, brExists and gzExists what fs.existsSync answers
\* for the two siblings of the candidate; none of them is looked at unless
\* preferPrecompressed is set, and && asks existsSync for a sibling only when
\* the header accepts its encoding (for .gz: and .br was not chosen), so the
\* request keeps an answer only when the question was asked.
Serve(r, c, cache, ae, brExists, gzExists) ==
    LET path == DerivePath(r.originalUrl, r.url)
        cachedPath == getCachedPath(cache, path, c.root)
        neg == IF c.preferPrecompressed
               THEN Negotiate(Candidate(cachedPath), ae, brExists, gzExists)
               ELSE [precompressed |-> Null, encoding |-> Null]
    IN  [r EXCEPT !.forwardError = ~c.fallthrough,
                  !.path = path,
                  !.cachedPath = cachedPath,
                  !.hit = MapHas(cache, CacheKey(path, c.root)),
                  !.evicted = IF ~MapHas(cache, CacheKey(path, c.root))
                                 /\ EvictIfFull(cache) # cache
                              THEN MapFirstKey(cache) ELSE Null,
                  !.ae = IF c.preferPrecompressed THEN ae ELSE <<>>,
                  !.brExists = c.preferPrecompressed /\ acceptBr(ae) /\ brExists,
                  !.gzExists = /\ c.preferPrecompressed
                               /\ ~(acceptBr(ae) /\ brExists)
                               /\ acceptGzip(ae) /\ gzExists,
                  !.precompressed = neg.precompressed,
                  !.encoding = neg.encoding,
                  !.enginePath = Or(neg.precompressed, cachedPath),
                  !.phase = "piped"]

\* function serveStatic (req, res, next): one call of the middleware i
HandleRequest(s, i, method, originalUrl, url, ae, brExists, gzExists) ==
    LET c == cfg[i]
        r == [NoRequest EXCEPT !.inst = i, !.method = method,
                               !.originalUrl = originalUrl, !.url = url]
    IN  /\ req[s].phase = "idle"
        /\ IF method # "GET" /\ method # "HEAD"
           THEN /\ req' = [req EXCEPT ![s] = MethodGate(r, c)]
                /\ UNCHANGED pathCache
           ELSE /\ req' = [req EXCEPT ![s] = Serve(r, c, pathCache, ae, brExists, gzExists)]
                /\ pathCache' = getCachedPathCache(pathCache,
                                                   DerivePath(originalUrl, url), c.root)
        /\ UNCHANGED <<cfg, built>>

----------------------------------------------------------------------------
(* The engine's notifications, each with the listener it runs *)

\* 'directory': the path resolved to a directory
EmitDirectory(s) ==
    /\ req[s].phase = "piped"
    /\ ~IsVariantPath(req[s])
    /\ req' = [req EXCEPT ![s] =
                 [onDirectory(Emitted(req[s], "directory"),
                              cfg[req[s].inst])
                     EXCEPT !.phase = "done"]]
    /\ UNCHANGED <<pathCache, cfg, built>>

EmitFile_sharedFlag(s) ==
    /\ req[s].phase = "piped"
    /\ req' = [t \in DOMAIN req |->
                 IF t = s
                 THEN [Emitted(req[s], "file") EXCEPT !.phase = "file",
                                                     !.forwardError = TRUE]
                 ELSE IF req[t].phase \in {"piped", "file", "headers"}
                 THEN [req[t] EXCEPT !.forwardError = TRUE]
                 ELSE req[t]]
    /\ UNCHANGED <<pathCache, cfg, built>>

\* 'file': a regular file was found; onFile is registered under fallthrough
EmitFile(s) ==
    /\ req[s].phase = "piped"
    /\ LET r == [Emitted(req[s], "file") EXCEPT !.phase = "file"]
       IN  req' = [req EXCEPT ![s] =
                     IF cfg[r.inst].fallthrough THEN onFile(r) ELSE r]
    /\ UNCHANGED <<pathCache, cfg, built>>

\* 'headers': the engine is about to write the headers of the file it opened
EmitHeaders(s) ==
    /\ req[s].phase = "file"
    /\ LET r == [Emitted(req[s], "headers") EXCEPT !.phase = "headers"]
           filePath == EngineFilePath(cfg[r.inst].root, r.enginePath)
       IN  req' = [req EXCEPT ![s] =
                     onHeaders(r, cfg[r.inst], filePath, [size |-> StatSize(filePath)])]
    /\ UNCHANGED <<pathCache, cfg, built>>

EmitError_retriesOriginal(s, status) ==
    /\ req[s].phase \in {"piped", "file", "headers"}
    /\ req' = [req EXCEPT ![s] =
                 IF /\ IsVariantPath(req[s])
                    /\ req[s].enginePath = req[s].precompressed
                    /\ req[s].phase = "piped"
                    /\ status = 404
                 THEN [req[s] EXCEPT !.enginePath = req[s].cachedPath]
                 ELSE [EngineError(req[s], status) EXCEPT !.phase = "done"]]
    /\ UNCHANGED <<pathCache, cfg, built>>

\* 'error': terminal, at any point before the response is complete
EmitError(s, status) ==
    /\ req[s].phase \in {"piped", "file", "headers"}
    /\ req' = [req EXCEPT ![s] = [EngineError(req[s], status) EXCEPT !.phase = "done"]]
    /\ UNCHANGED <<pathCache, cfg, built>>

\* stream.pipe(res) ran to its end: the engine ended the response
EngineEnd(s) ==
    /\ req[s].phase = "headers"
    /\ req' = [req EXCEPT ![s] = [req[s] EXCEPT !.ended = Append(@, "engine"),
                                                !.phase = "done"]]
    /\ UNCHANGED <<pathCache, cfg, built>>

\* the request is over; its slot takes the next one
Release(s) ==
    /\ req[s].phase = "done"
    /\ req' = [req EXCEPT ![s] = NoRequest]
    /\ UNCHANGED <<pathCache, cfg, built>>

----------------------------------------------------------------------------
(* Construction: serveStatic(root, options) *)

\* JavaScript values, as far as serveStatic looks at them: the type typeof
\* tells, a number's value (1 and 0 for true and false), a string's text
JsValue(type, num, str) == [type |-> type, num |-> num, str |-> str]
Undefined == JsValue("undefined", 0, <<>>)
JsFalse == JsValue("boolean", 0, <<>>)
JsTrue == JsValue("boolean", 1, <<>>)
JsNumber(n) == JsValue("number", n, <<>>)
JsString(str) == JsValue("string", 0, str)
JsFunction == JsValue("function", 0, <<>>)

\* ToBoolean, as ! and && and || apply it
Truthy(v) ==
    CASE v.type = "undefined" -> FALSE
      [] v.type = "boolean" -> v.num = 1
      [] v.type = "number" -> v.num # 0
      [] v.type = "string" -> v.str # <<>>
      [] OTHER -> TRUE

\* the options argument: a value, and its properties when it is an object
NoProps ==
    [fallthrough |-> Undefined, redirect |-> Undefined,
     setHeaders |-> Undefined, preferPrecompressed |-> Undefined]
JsOptions(v, props) == [type |-> v.type, num |-> v.num, str |-> v.str, props |-> props]
JsObject(props) == JsOptions(JsValue("object", 0, <<>>), props)

\* process.cwd()
Cwd == <<"/", "w">>

StripTrailingSlashes(str) ==
    IF Len(str) > 1 /\ str[Len(str)] = "/"
    THEN SubSeq(str, 1, Len(str) - 1)
    ELSE str

\* path.resolve(root), for a root without "." and ".." segments and without
\* doubled slashes: made absolute from the working directory, one trailing
\* slash dropped
resolve(root) ==
    StripTrailingSlashes(IF Len(root) > 0 /\ root[1] = "/"
                         THEN root
                         ELSE Cwd \o <<"/">> \o root)

NoMiddleware ==
    [root |-> <<>>, fallthrough |-> FALSE, redirect |-> FALSE,
     setHeaders |-> FALSE, preferPrecompressed |-> FALSE]

Throw(message) == [threw |-> TRUE, message |-> message, middleware |-> NoMiddleware]
Return(middleware) == [threw |-> FALSE, message |-> "", middleware |-> middleware]

\* what the middleware closes over once the checks have passed
Closure(root, opts) ==
    [root |-> resolve(root.str),
     fallthrough |-> opts.fallthrough # JsFalse,
     redirect |-> opts.redirect # JsFalse,
     setHeaders |-> Truthy(opts.setHeaders),
     preferPrecompressed |-> opts.preferPrecompressed = JsTrue]

serveStatic_anyRoot(root, options) ==
    IF ~Truthy(root)
    THEN Throw("root path required")
    ELSE IF Truthy(options) /\ options.type \notin {"object", "function"}
    THEN Throw("Object prototype may only be an Object or null")
    ELSE IF Truthy(options.props.setHeaders) /\ options.props.setHeaders.type # "function"
    THEN Throw("option setHeaders must be function")
    ELSE Return(Closure(root, options.props))

\* function serveStatic (root, options): the TypeError it throws or the
\* middleware it returns. Object.create(options || null) throws for a truthy
\* options that is not an object.
serveStatic(root, options) ==
    IF ~Truthy(root)
    THEN Throw("root path required")
    ELSE IF root.type # "string"
    THEN Throw("root path must be a string")
    ELSE IF Truthy(options) /\ options.type \notin {"object", "function"}
    THEN Throw("Object prototype may only be an Object or null")
    ELSE IF Truthy(options.props.setHeaders) /\ options.props.setHeaders.type # "function"
    THEN Throw("option setHeaders must be function")
    ELSE Return(Closure(root, options.props))

NoCall ==
    [called |-> FALSE, root |-> Undefined, options |-> JsOptions(Undefined, NoProps),
     threw |-> FALSE, message |-> ""]

\* one call of serveStatic(root, options)
Construct(root, options) ==
    LET result == serveStatic(root, options) IN
    /\ Len(cfg) < MaxInstances
    /\ built' = [called |-> TRUE, root |-> root, options |-> options,
                 threw |-> result.threw, message |-> result.message]
    /\ cfg' = IF result.threw THEN cfg ELSE Append(cfg, result.middleware)
    /\ UNCHANGED <<pathCache, req>>

----------------------------------------------------------------------------
(* Inputs *)

RootA == <<"/", "a">>
RootB == <<"/", "a", ":", ":", "/", "b">>

\* the options a middleware can be constructed with, for a resolved root
Configs(root) ==
    [root : {root}, fallthrough : BOOLEAN, redirect : BOOLEAN,
     setHeaders : BOOLEAN, preferPrecompressed : BOOLEAN]

Methods == {"GET", "HEAD", "POST"}

\* the statuses of the engine's errors
ErrStatuses == {404, 412, 500}

Url(o, u) == [originalUrl |-> o, url |-> u]

\* requests: a directory without and with trailing slash, the mount point of
\* a middleware mounted at /m, a file
ReqUrls ==
    { Url(<<"/", "d">>, <<"/", "d">>),
      Url(<<"/", "d", "/">>, <<"/", "d", "/">>),
      Url(<<"/", "m">>, <<"/">>),
      Url(<<"/", "x", ".", "j", "s">>, <<"/", "x", ".", "j", "s">>) }

\* Accept-Encoding headers: none, "br", "gzip", "gzip, br", "pack200-gzip"
AcceptEncodings ==
    { <<>>, TokBr, TokGzip,
      TokGzip \o <<",", " ">> \o TokBr,
      <<"p", "a", "c", "k", "2", "0", "0", "-">> \o TokGzip }

Slots == {1}

----------------------------------------------------------------------------
(* Spec: one middleware, any options, requests one after the other *)

Init ==
    /\ pathCache = <<>>
    /\ cfg \in {<<c>> : c \in Configs(RootA)}
    /\ req = [s \in Slots |-> NoRequest]
    /\ built = NoCall

\* a request arrives, drawn from the given inputs
RequestFrom(methods, urls, aes) ==
    \E s \in DOMAIN req, i \in DOMAIN cfg, m \in methods, u \in urls,
       ae \in aes, br \in BOOLEAN, gz \in BOOLEAN :
        HandleRequest(s, i, m, u.originalUrl, u.url, ae, br, gz)

Request == RequestFrom(Methods, ReqUrls, AcceptEncodings)
Directory == \E s \in DOMAIN req : EmitDirectory(s)
File == \E s \in DOMAIN req : EmitFile(s)
Headers == \E s \in DOMAIN req : EmitHeaders(s)
Error == \E s \in DOMAIN req, status \in ErrStatuses : EmitError(s, status)
End == \E s \in DOMAIN req : EngineEnd(s)
Over == \E s \in DOMAIN req : Release(s)

Next ==
    \/ Request
    \/ Directory
    \/ File
    \/ Headers
    \/ Error
    \/ End
    \/ Over

Spec == Init /\ [][Next]_vars

----------------------------------------------------------------------------
(* SpecRedirect: a middleware with the redirect policy, requests for
   directories under URLs of many shapes *)

Slashes(n) == [k \in 1..n |-> "/"]

SameUrl(o) == Url(o, o)

\* /d with 1..MaxSlashes leading slashes; with a query; with characters that
\* encodeUrl or escapeHtml rewrite; with a trailing slash; the mount point /m
RedirectUrls ==
    { SameUrl(Slashes(n) \o <<"d">>) : n \in 1..MaxSlashes }
    \cup { SameUrl(<<"/", "/", "d", "?", "q", "=", "/">>),
           SameUrl(<<"/", "d", "&", "'">>),
           SameUrl(<<"/", "d", "<">>),
           SameUrl(<<"/", "d", "/">>),
           SameUrl(<<"/", "/", "d", "/">>),
           Url(<<"/", "m">>, <<"/">>),
           Url(<<"/", "m", "/">>, <<"/">>) }

InitRedirect ==
    /\ pathCache = <<>>
    /\ cfg \in {<<c>> : c \in {x \in Configs(RootA) :
                    x.redirect /\ ~x.preferPrecompressed /\ ~x.setHeaders}}
    /\ req = [s \in Slots |-> NoRequest]
    /\ built = NoCall

RedirectRequest == RequestFrom({"GET"}, RedirectUrls, {<<>>})

NextRedirect ==
    \/ RedirectRequest
    \/ Directory
    \/ File
    \/ Headers
    \/ Error
    \/ End
    \/ Over

SpecRedirect == InitRedirect /\ [][NextRedirect]_vars

----------------------------------------------------------------------------
(* SpecShared: two middlewares with the default options, one rooted at /a
   and one at /a::/b, which share the module's path cache *)

DefaultConfig(root) ==
    [root |-> root, fallthrough |-> TRUE, redirect |-> TRUE,
     setHeaders |-> FALSE, preferPrecompressed |-> FALSE]

\* /c, /b::/c, /d
SharedUrls ==
    { SameUrl(<<"/", "c">>),
      SameUrl(<<"/", "b", ":", ":", "/", "c">>),
      SameUrl(<<"/", "d">>) }

InitShared ==
    /\ pathCache = <<>>
    /\ cfg = <<DefaultConfig(RootA), DefaultConfig(RootB)>>
    /\ req = [s \in Slots |-> NoRequest]
    /\ built = NoCall

SharedRequest == RequestFrom({"GET"}, SharedUrls, {<<>>})

NextShared ==
    \/ SharedRequest
    \/ Directory
    \/ File
    \/ Headers
    \/ Error
    \/ End
    \/ Over

SpecShared == InitShared /\ [][NextShared]_vars

----------------------------------------------------------------------------
(* SpecVariants: as SpecShared, with both middlewares serving precompressed
   variants *)

VariantAcceptEncodings == { <<>>, TokBr, TokGzip }

InitVariants ==
    /\ pathCache = <<>>
    /\ cfg = <<[DefaultConfig(RootA) EXCEPT !.preferPrecompressed = TRUE],
               [DefaultConfig(RootB) EXCEPT !.preferPrecompressed = TRUE]>>
    /\ req = [s \in Slots |-> NoRequest]
    /\ built = NoCall

VariantRequest == RequestFrom({"GET"}, SharedUrls, VariantAcceptEncodings)

NextVariants ==
    \/ VariantRequest
    \/ Directory
    \/ File
    \/ Headers
    \/ Error
    \/ End
    \/ Over

SpecVariants == InitVariants /\ [][NextVariants]_vars

----------------------------------------------------------------------------
(* SpecConcurrent: one middleware with fallthrough, up to MaxInFlight requests
   in flight, the engine's notifications for them in any interleaving *)

ConcurrentUrls ==
    { SameUrl(<<"/", "d">>), SameUrl(<<"/", "x", ".", "j", "s">>) }

InitConcurrent ==
    /\ pathCache = <<>>
    /\ cfg = <<DefaultConfig(RootA)>>
    /\ req = [s \in 1..MaxInFlight |-> NoRequest]
    /\ built = NoCall

ConcurrentRequest == RequestFrom({"GET"}, ConcurrentUrls, {<<>>})

NextConcurrent ==
    \/ ConcurrentRequest
    \/ Directory
    \/ File
    \/ Headers
    \/ Error
    \/ End
    \/ Over

SpecConcurrent == InitConcurrent /\ [][NextConcurrent]_vars

----------------------------------------------------------------------------
(* SpecConstruct: calls of serveStatic with roots and options of every kind
   the function tells apart, and requests to the middlewares it returned *)

\* no root, the empty string, a number, a relative path
ConstructRoots ==
    { Undefined, JsString(<<>>), JsNumber(42), JsString(<<"a", "/">>) }

\* no options, a number, objects whose setHeaders is absent, a function, a
\* number or false, and whose fallthrough is absent or false
ConstructOptions ==
    { JsOptions(Undefined, NoProps), JsOptions(JsNumber(5), NoProps) }
    \cup { JsObject([NoProps EXCEPT !.setHeaders = sh, !.fallthrough = ft]) :
             sh \in {Undefined, JsFunction, JsNumber(3), JsFalse},
             ft \in {Undefined, JsFalse} }

InitConstruct ==
    /\ pathCache = <<>>
    /\ cfg = <<>>
    /\ req = [s \in Slots |-> NoRequest]
    /\ built = NoCall

Build == \E root \in ConstructRoots, options \in ConstructOptions : Construct(root, options)

ConstructRequest == RequestFrom({"GET"}, {SameUrl(<<"/", "d">>)}, {<<>>})

NextConstruct ==
    \/ Build
    \/ ConstructRequest
    \/ Directory
    \/ File
    \/ Headers
    \/ Error
    \/ End
    \/ Over

SpecConstruct == InitConstruct /\ [][NextConstruct]_vars

----------------------------------------------------------------------------
(* Claims *)

Requests == {req[s] : s \in DOMAIN req}
Done == {r \in Requests : r.phase = "done"}
InFlight == {r \in Requests : r.phase \in {"piped", "file", "headers"}}
Has(r, event) == \E k \in 1..Len(r.events) : r.events[k] = event
IsGetOrHead(r) == r.method \in {"GET", "HEAD"}

\* C1: a request never has next called twice, its response ended twice, or
\* both next called and its response ended; while the engine is still at
\* work neither has happened, and once the request is over exactly one has.
C1_ExactlyOneOutcome ==
    \A r \in Requests :
        /\ Len(r.nextCalls) + Len(r.ended) <= 1
        /\ r \in InFlight => Len(r.nextCalls) + Len(r.ended) = 0
        /\ r \in Done => Len(r.nextCalls) + Len(r.ended) = 1
        /\ r.statusCode \in {301, 405} => r.ended = <<"dispatcher">> /\ r.nextCalls = <<>>

\* a directory notification the listener turned into the engine's 404, which
\* reached next
C1_Witness ==
    \E r \in Done :
        /\ r.events = <<"directory", "error">>
        /\ Len(r.nextCalls) = 1
        /\ r.ended = <<>>

\* C2: a request whose method is neither GET nor HEAD is settled by the call
\* of the middleware itself, without the engine. Under fallthrough next is
\* called with no argument and nothing else changes: no status, no header,
\* no body, the response not ended, the path cache as it was. Without
\* fallthrough the response is ended with 405, Allow: GET, HEAD,
\* Content-Length 0 and no body, and next is not called.
C2_MethodGate ==
    [][\A s \in DOMAIN req :
        (req[s].phase = "idle" /\ req'[s].phase # "idle" /\ ~IsGetOrHead(req'[s])) =>
            LET r == req'[s] IN
            /\ r.phase = "done"
            /\ r.events = <<>>
            /\ IF cfg[r.inst].fallthrough
               THEN /\ r.nextCalls = <<[err |-> 0]>>
                    /\ r.statusCode = 0
                    /\ r.writes = <<>>
                    /\ r.body = <<>>
                    /\ r.ended = <<>>
                    /\ pathCache' = pathCache
               ELSE /\ r.nextCalls = <<>>
                    /\ r.statusCode = 405
                    /\ Written(r) = {"Allow", "Content-Length"}
                    /\ Header(r, "Allow") = Lit("GET, HEAD")
                    /\ Header(r, "Content-Length") = 0
                    /\ r.body = <<>>
                    /\ r.ended = <<"dispatcher">>]_vars

\* a POST passed on by next() while the cache holds entries of earlier requests
C2_Witness ==
    \E r \in Done :
        /\ r.method = "POST"
        /\ cfg[r.inst].fallthrough
        /\ r.nextCalls = <<[err |-> 0]>>
        /\ pathCache # <<>>

\* C3: when the engine emits 'error' for a GET or HEAD request, next gets the
\* error if fallthrough is off or the status is 500 or more; it is called with
\* no argument if fallthrough is on, no 'file' came before and the status is
\* below 500.
C3_ErrorForwarding ==
    \A r \in Requests :
        (IsGetOrHead(r) /\ Has(r, "error")) =>
            /\ (~cfg[r.inst].fallthrough \/ r.errStatus >= 500)
                   => r.nextCalls = <<[err |-> r.errStatus]>>
            /\ (cfg[r.inst].fallthrough /\ ~Has(r, "file") /\ r.errStatus < 500)
                   => r.nextCalls = <<[err |-> 0]>>

\* a 500 under fallthrough, before any file was found, reaches next as an error
C3_Witness ==
    \E r \in Done :
        /\ cfg[r.inst].fallthrough
        /\ r.events = <<"error">>
        /\ r.errStatus = 500
        /\ r.nextCalls = <<[err |-> 500]>>

\* C4: under fallthrough, from the 'file' notification on the request
\* forwards errors, and an 'error' that follows 'file' reaches next with the
\* error whatever its status.
C4_ForwardAfterFile ==
    \A r \in Requests :
        (r.phase # "idle" /\ cfg[r.inst].fallthrough /\ Has(r, "file")) =>
            /\ r.forwardError
            /\ Has(r, "error") => r.nextCalls = <<[err |-> r.errStatus]>>

\* a 404 after 'file' and 'headers', under fallthrough, forwarded
C4_Witness ==
    \E r \in Done :
        /\ cfg[r.inst].fallthrough
        /\ r.events = <<"file", "headers", "error">>
        /\ r.errStatus = 404
        /\ r.nextCalls = <<[err |-> 404]>>

StartsWith(str, prefix) ==
    Len(str) >= Len(prefix) /\ SubSeq(str, 1, Len(prefix)) = prefix

\* a pathname with its run of leading slashes cut down to one
OneLeadingSlash(p) ==
    IF LeadingSlashes(p) >= 2 THEN SubSeq(p, LeadingSlashes(p), Len(p)) ELSE p

\* C5: under the redirect policy a directory notification for a request whose
\* original pathname has no trailing slash ends the response with a 301. The
\* path of its Location is the original pathname, leading slashes cut down to
\* one and one "/" appended, percent-encoded; the query of the original URL
\* follows it. The Location never begins with "//". The body is the HTML
\* document naming the escaped Location and Content-Length is its length.
C5_RedirectLocation ==
    \A r \in Requests :
        LET p == Pathname(r.originalUrl)
            target == OneLeadingSlash(p) \o <<"/">>
        IN  /\ (r.phase # "idle" /\ cfg[r.inst].redirect /\ Has(r, "directory")
                   /\ ~EndsWithSlash(p))
                => r.statusCode = 301
            /\ r.statusCode = 301 =>
                /\ Has(r, "directory") /\ ~EndsWithSlash(p)
                /\ r.ended = <<"dispatcher">>
                /\ Pathname(Header(r, "Location")) = encodeUrl(target)
                /\ Search(Header(r, "Location")) = encodeUrl(Search(r.originalUrl))
                /\ ~StartsWith(Header(r, "Location"), <<"/", "/">>)
                /\ EndsWithSlash(target) /\ ~EndsWith(target, <<"/", "/">>)
                /\ r.body = DocHead \o TxtRedirecting \o DocMid \o TxtRedirectingTo
                              \o escapeHtml(Header(r, "Location")) \o DocTail
                /\ Header(r, "Content-Length") = Len(r.body)

\* a redirect of ///d, whose Location is /d/
C5_Witness ==
    \E r \in Done :
        /\ r.originalUrl = <<"/", "/", "/", "d">>
        /\ r.statusCode = 301
        /\ Header(r, "Location") = <<"/", "d", "/">>

HasToken(ae, tok) ==
    \E i \in 1..(Len(ae) - Len(tok) + 1) :
        /\ SubSeq(ae, i, i + Len(tok) - 1) = tok
        /\ i = 1 \/ ae[i - 1] \in {",", " "}
        /\ i + Len(tok) - 1 = Len(ae) \/ ae[i + Len(tok)] \in {",", " ", ";"}

\* C7: with preferPrecompressed the .br sibling is served, tagged br, iff the
\* header lists the token br and the .br sibling exists; otherwise the .gz
\* sibling, tagged gzip, iff the header lists the token gzip and the .gz
\* sibling exists; otherwise no variant, and the engine gets the cached path.
C7_Negotiation ==
    \A r \in Requests :
        (IsGetOrHead(r) /\ cfg[r.inst].preferPrecompressed) =>
            IF HasToken(r.ae, TokBr) /\ r.brExists
            THEN /\ r.precompressed = Candidate(r.cachedPath) \o DotBr
                 /\ r.encoding = Lit("br")
                 /\ r.enginePath = r.precompressed
            ELSE IF HasToken(r.ae, TokGzip) /\ r.gzExists
            THEN /\ r.precompressed = Candidate(r.cachedPath) \o DotGz
                 /\ r.encoding = Lit("gzip")
                 /\ r.enginePath = r.precompressed
            ELSE /\ r.precompressed = Null
                 /\ r.encoding = Null
                 /\ r.enginePath = r.cachedPath

\* the writes of the dispatcher itself, and the value of the last one of a name
DispatcherWrote(r) ==
    {r.writes[k].name : k \in {j \in 1..Len(r.writes) : r.writes[j].by = "dispatcher"}}

DispatcherValue(r, name) ==
    r.writes[CHOOSE k \in 1..Len(r.writes) :
                /\ r.writes[k].by = "dispatcher" /\ r.writes[k].name = name
                /\ \A j \in (k + 1)..Len(r.writes) :
                       ~(r.writes[j].by = "dispatcher" /\ r.writes[j].name = name)].value

Rewritten == {"Content-Encoding", "Content-Type", "Content-Length"}

C9_SetHeadersLast ==
    \A r \in Requests :
        /\ ~Has(r, "headers") => r.setHeadersCalls = <<>>
        /\ Has(r, "headers") =>
            /\ "Vary" \in DispatcherWrote(r)
            /\ DispatcherValue(r, "Vary") = Lit("Accept-Encoding")
            /\ Len(r.setHeadersCalls) = IF cfg[r.inst].setHeaders THEN 1 ELSE 0
            /\ cfg[r.inst].setHeaders =>
                LET call == r.setHeadersCalls[1]
                    filePath == EngineFilePath(cfg[r.inst].root, r.enginePath)
                IN  /\ call.path = filePath
                    /\ call.stat = [size |-> StatSize(filePath)]
                    /\ \A k \in 1..Len(r.writes) :
                           r.writes[k].by = "dispatcher" <=> k <= call.after
                    /\ Header(r, "Vary") = CbValue
                    /\ Header(r, "Content-Encoding") = CbValue

\* a callback that overrode the Content-Encoding of a selected variant
C9_Witness ==
    \E r \in Requests :
        /\ Has(r, "headers")
        /\ cfg[r.inst].setHeaders
        /\ r.encoding = Lit("gzip")
        /\ DispatcherValue(r, "Content-Encoding") = Lit("gzip")
        /\ Header(r, "Content-Encoding") = CbValue

\* C10: whatever requests came before, on whatever middleware, the path
\* getCachedPath returns for a request is the pathname it was called with.
C10_CacheTransparent ==
    \A r \in Requests : (IsGetOrHead(r) /\ r.phase # "idle") => r.cachedPath = r.path

----------------------------------------------------------------------------
(* The path cache *)

MapKeys(m) == {m[i].key : i \in 1..Len(m)}
MapIndex(m, k) == CHOOSE i \in 1..Len(m) : m[i].key = k

\* the key getCachedPath used for the request
KeyOf(r) == CacheKey(r.path, cfg[r.inst].root)

\* C11: whatever requests the middlewares that share the path cache have
\* handled, in whatever order, the cache never holds more than
\* MAX_CACHE_SIZE entries, and never two entries under one key.
C11_CacheBounded ==
    /\ Len(pathCache) <= MAX_CACHE_SIZE
    /\ Cardinality(MapKeys(pathCache)) = Len(pathCache)

\* the cache is at its bound after a miss of the second middleware, and
\* holds the entry of an earlier request
C11_Witness ==
    /\ Len(pathCache) = MAX_CACHE_SIZE
    /\ \E r \in InFlight :
          /\ r.inst = 2
          /\ ~r.hit
          /\ pathCache[1].key # KeyOf(r)

\* the entries other than k keep their relative order from m to n
SameOrderBut(m, n, k) ==
    \A a, b \in (MapKeys(m) \cap MapKeys(n)) \ {k} :
        MapIndex(m, a) < MapIndex(m, b) <=> MapIndex(n, a) < MapIndex(n, b)

\* one call of getCachedPath takes the Map m to n, for the key k
LruStep(m, n, k) ==
    /\ Len(n) > 0 /\ n[Len(n)].key = k
    /\ SameOrderBut(m, n, k)
    /\ IF k \in MapKeys(m)
       THEN /\ MapKeys(n) = MapKeys(m)
            /\ MapGet(n, k) = MapGet(m, k)
       ELSE IF Len(m) >= MAX_CACHE_SIZE
       THEN /\ MapKeys(n) = (MapKeys(m) \ {m[1].key}) \cup {k}
            /\ Len(n) = Len(m)
       ELSE MapKeys(n) = MapKeys(m) \cup {k}

\* C12: the entries of the cache are in the order of their last use (insertion
\* or hit), least recent first. A resolve call leaves the key it asked for
\* last and the other entries in their order; on a hit the cache keeps
\* exactly its keys and the value of the hit; on a miss with a full cache
\* exactly one entry goes, the first (least recently used) one; on a miss
\* otherwise nothing goes.
C12_Lru ==
    [][\A s \in DOMAIN req :
          (req[s].phase = "idle" /\ req'[s].phase = "piped")
              => LruStep(pathCache, pathCache', CacheKey(req'[s].path,
                                                         cfg[req'[s].inst].root))]_vars

\* a miss with a full cache has evicted the oldest key, which is gone, and
\* left the entry of an earlier request in place
C12_Witness ==
    \E r \in InFlight :
        /\ r.evicted # Null
        /\ r.evicted \notin MapKeys(pathCache)
        /\ Len(pathCache) = MAX_CACHE_SIZE
        /\ pathCache[Len(pathCache)].key = KeyOf(r)

----------------------------------------------------------------------------
(* Fallthrough and the directory policy *)

\* the dispatcher has neither set a status, written a header or a body, ended
\* the response nor called the user's setHeaders
Untouched(r) ==
    /\ r.statusCode = 0
    /\ r.writes = <<>>
    /\ r.body = <<>>
    /\ r.ended = <<>>
    /\ r.setHeadersCalls = <<>>

\* C13: when the engine's only notification for a GET or HEAD request of a
\* middleware with fallthrough is an error with a status below 500 (no file
\* matched the path), next has been called once, without an error, and the
\* dispatcher has left the response untouched.
C13_FallthroughUntouched ==
    \A r \in Requests :
        (/\ r.events = <<"error">>
         /\ r.errStatus < 500
         /\ IsGetOrHead(r)
         /\ cfg[r.inst].fallthrough)
            => r.nextCalls = <<[err |-> 0]>> /\ Untouched(r)

C13_Witness ==
    \E r \in Done :
        /\ r.events = <<"error">>
        /\ r.errStatus = 404
        /\ r.method = "HEAD"
        /\ cfg[r.inst].fallthrough
        /\ r.nextCalls = <<[err |-> 0]>>

\* what the not-found directory policy makes of a request
NotFoundPolicy(r) ==
    /\ r.statusCode # 301
    /\ Has(r, "directory")
          => /\ r.events = <<"directory", "error">>
             /\ r.errStatus = 404
             /\ r.nextCalls = <<[err |-> IF cfg[r.inst].fallthrough THEN 0 ELSE 404]>>
             /\ Untouched(r)

\* C14: a middleware constructed with redirect disabled never answers 301;
\* a directory notification of any of its requests makes the engine raise a
\* 404 error and nothing else, which the error listener passes on as next()
\* under fallthrough and as next(err) otherwise; and the options of a
\* middleware, its directory policy among them, never change once it is
\* constructed.
C14_NotFoundPolicy ==
    [][/\ \A i \in DOMAIN cfg : i \in DOMAIN cfg' /\ cfg'[i] = cfg[i]
       /\ \A s \in DOMAIN req' :
             (req'[s].phase # "idle" /\ ~cfg'[req'[s].inst].redirect)
                 => NotFoundPolicy(req[s])']_vars

C14_Witness ==
    \E r \in Done :
        /\ ~cfg[r.inst].redirect
        /\ ~cfg[r.inst].fallthrough
        /\ r.events = <<"directory", "error">>
        /\ r.nextCalls = <<[err |-> 404]>>

----------------------------------------------------------------------------
(* Construction *)

\* the step is a call of serveStatic
Constructs == built' # built \/ cfg' # cfg

\* the call threw: no middleware, the cache as it was
Failed ==
    /\ built'.threw
    /\ cfg' = cfg
    /\ pathCache' = pathCache

\* the call returned a middleware, and left the others and the cache alone
Returned ==
    /\ ~built'.threw
    /\ Len(cfg') = Len(cfg) + 1
    /\ SubSeq(cfg', 1, Len(cfg)) = cfg
    /\ pathCache' = pathCache

BadRoot(root) == ~Truthy(root) \/ root.type # "string"

\* C15 as stated: serveStatic(root, options) throws, returning no middleware
\* and leaving the path cache unchanged, if root is falsy or not a string or
\* if options.setHeaders is present (not undefined) and not a function; for
\* every other input it returns a middleware.
C15_AsStated ==
    [][Constructs =>
         IF \/ BadRoot(built'.root)
            \/ built'.options.props.setHeaders.type \notin {"undefined", "function"}
         THEN Failed
         ELSE Returned]_vars

\* C15, amended: serveStatic(root, options) throws, returning no middleware
\* and leaving the path cache unchanged, if root is falsy or not a string,
\* if options is truthy and not an object, or if options.setHeaders is truthy
\* and not a function; for every other input it returns a middleware.
C15_Construction ==
    [][Constructs =>
         IF \/ BadRoot(built'.root)
            \/ Truthy(built'.options) /\ built'.options.type \notin {"object", "function"}
            \/ /\ Truthy(built'.options.props.setHeaders)
               /\ built'.options.props.setHeaders.type # "function"
         THEN Failed
         ELSE Returned]_vars

\* a call with a number for root has thrown, with a middleware constructed
\* and an entry in the cache before it
C15_Witness ==
    /\ built.called /\ built.threw
    /\ built.root = JsNumber(42)
    /\ Len(cfg) = 1
    /\ Len(pathCache) = 1

----------------------------------------------------------------------------
(* The mount root *)

\* C16: a GET or HEAD request whose pathname is the mount root "/" while its
\* original URL does not end in "/" has the empty path handed to the engine,
\* whatever the options and whatever siblings of index.html exist, so the
\* engine is never made to serve a file for it.
C16_MountRootEmptyPath ==
    \A r \in Requests :
        (/\ r.phase # "idle"
         /\ IsGetOrHead(r)
         /\ Pathname(r.url) = <<"/">>
         /\ ~EndsWithSlash(Pathname(r.originalUrl)))
            => /\ r.enginePath = <<>>
               /\ ~Has(r, "file")

----------------------------------------------------------------------------
(* Negotiation and the requests before *)

\* what the negotiation gives for the request taken alone: for its own path,
\* its Accept-Encoding and the answers of fs.existsSync
Alone(r) == Negotiate(Candidate(r.path), r.ae, r.brExists, r.gzExists)

\* C17: the outcome of the negotiation is that of the request taken alone,
\* whatever requests came before: the path cache holds neither a variant
\* path nor an encoding tag; the variant path and the encoding chosen are
\* those for the request's own path, Accept-Encoding and siblings; and a
\* request whose Accept-Encoding contains neither "br" nor "gzip" gets no
\* variant and no Content-Encoding from the dispatcher.
C17_HistoryFree ==
    /\ \A i \in 1..Len(pathCache) :
          /\ ~EndsWith(pathCache[i].value, DotBr)
          /\ ~EndsWith(pathCache[i].value, DotGz)
          /\ pathCache[i].value \notin {TokBr, TokGzip}
    /\ \A r \in Requests :
          (r.phase # "idle" /\ IsGetOrHead(r) /\ cfg[r.inst].preferPrecompressed)
              => /\ r.precompressed = Alone(r).precompressed
                 /\ r.encoding = Alone(r).encoding
                 /\ (~Contains(r.ae, TokBr) /\ ~Contains(r.ae, TokGzip))
                       => /\ r.precompressed = Null
                          /\ r.encoding = Null
                          /\ "Content-Encoding" \notin DispatcherWrote(r)

----------------------------------------------------------------------------
(* Requests in flight together *)

\* the error listener of the request decided by the request's own
\* notifications: an error below 500 with no file seen is not forwarded
OwnDecision(r) ==
    /\ r.phase # "idle" => r.forwardError = (~cfg[r.inst].fallthrough \/ Has(r, "file"))
    /\ (Has(r, "error") /\ r.errStatus < 500 /\ ~Has(r, "file") /\ cfg[r.inst].fallthrough)
          => r.nextCalls = <<[err |-> 0]>>

\* C18: with several requests of one middleware in flight and the engine's
\* notifications interleaved in any order, a step for one request leaves
\* every other request as it was (its next is not called, its response not
\* written, its forwardError not set), and whether a request's error is
\* forwarded follows from the notifications of that request alone: a file
\* seen by another request never makes a below-500 error of a request that
\* has seen no file be forwarded.
C18_Isolation ==
    [][/\ \A s, t \in DOMAIN req :
             (s # t /\ req'[t] # req[t]) => req'[s] = req[s]
       /\ \A s \in DOMAIN req : OwnDecision(req[s])']_vars

\* one request has seen its file and is still in flight, another one's 404
\* was not forwarded
C18_Witness ==
    \E a, b \in DOMAIN req :
        /\ a # b
        /\ req[a].phase = "file" /\ req[a].forwardError
        /\ req[b].phase = "done"
        /\ req[b].events = <<"error">>
        /\ req[b].errStatus = 404
        /\ req[b].nextCalls = <<[err |-> 0]>>

----------------------------------------------------------------------------
(* A variant that is gone when the engine opens it *)

\* C19: once the negotiation has chosen a precompressed sibling, the variant
\* path is the only path the engine is asked for. When the sibling is gone by
\* the time the engine opens it, the engine's not-found error is the
\* request's outcome: the request is over, next was called once (without an
\* error under fallthrough, with the 404 otherwise), and the dispatcher has
\* written no Content-Encoding, nor anything else, to the response.
C19_NoRetry ==
    \A r \in Requests :
        r.precompressed # Null
            => /\ r.enginePath = r.precompressed
               /\ (r.events = <<"error">> /\ r.errStatus = 404)
                     => /\ r.phase = "done"
                        /\ r.nextCalls =
                              <<[err |-> IF cfg[r.inst].fallthrough THEN 0 ELSE 404]>>
                        /\ "Content-Encoding" \notin DispatcherWrote(r)
                        /\ Untouched(r)

\* the .gz sibling was there at the check, the engine did not find it, and
\* the 404 was forwarded
C19_Witness ==
    \E r \in Done :
        /\ r.gzExists /\ r.encoding = Lit("gzip")
        /\ r.events = <<"error">>
        /\ r.errStatus = 404
        /\ ~cfg[r.inst].fallthrough
        /\ r.nextCalls = <<[err |-> 404]>>

============================================================================
